---- MODULE Spec2Model ----
(***************************************************************************)
(* Model of the xbar crate (src/src/lib.rs): the Crossbar iterator that    *)
(* enumerates the connections of a one-sided crossbar switch with `count`  *)
(* terminals, and the topology functions blocks / rows / columns.          *)
(*                                                                         *)
(* Two iterators are constructed independently from the same terminal     *)
(* count and advanced in any interleaving; every call of next() is         *)
(* recorded with the cursors it started from and the Option<Connection>    *)
(* it returned.  A consumer may compute the topology (blocks, rows,        *)
(* columns) of the same terminal count at any time.                        *)
(***************************************************************************)
EXTENDS Integers, Sequences, FiniteSets

\* Largest terminal count handed to Crossbar::new.
MaxN == 10

\* How many times next() is called again on an exhausted iterator.
MaxNone == 2

\* The iterators that are alive at the same time.
Enums == {1, 2}

VARIABLES
    arg,    \* the terminal count N handed to Crossbar::new
    pc,     \* pc[e]: "new" until iterator e is constructed, then "iter"
    xbar,   \* xbar[e]: the Crossbar struct of iterator e (count, inner_idx, outer_idx)
    calls,  \* calls[e]: one record per finished next() call on e, oldest first
    topo    \* the topology last computed from arg, if any

vars == <<arg, pc, xbar, calls, topo>>

----------------------------------------------------------------------------
\* std::cmp::min
min(a, b) == IF a < b THEN a ELSE b

\* Position::new with block and row exchanged in the absolute index.
Position_swapped(block_idx, row_idx, count) ==
    [block_idx |-> block_idx,
     row_idx   |-> row_idx,
     abs_idx   |-> block_idx + row_idx * count]

\* Position::new
Position(block_idx, row_idx, count) ==
    [block_idx |-> block_idx,
     row_idx   |-> row_idx,
     abs_idx   |-> row_idx + block_idx * count]

\* struct Connection
Connection(start, end, col_idx) ==
    [start |-> start, end |-> end, col_idx |-> col_idx]

\* new that starts the outer cursor at 0.
new_outer0(count) == [count |-> count, inner_idx |-> 0, outer_idx |-> 0]

\* new that clamps the terminal count to at least 1.
new_clamped(count) ==
    [count |-> IF count < 1 THEN 1 ELSE count, inner_idx |-> 0, outer_idx |-> 1]

\* Crossbar::new
new(count) == [count |-> count, inner_idx |-> 0, outer_idx |-> 1]

\* blocks that returns the terminal count itself.
blocks_count(count) == count

\* Crossbar::blocks
blocks(count) == count - 1

\* Crossbar::rows
rows(count) == count * (count - 1)

\* Crossbar::columns
columns(count) == count \div 2

\* Crossbar::b2i
b2i(b) == IF b THEN 1 ELSE 0

\* full_block_reverse with the `j < 3 * i` case taken always.
full_block_reverse_onecol(n, i, j) ==
    LET block == 2 * i - 1
    IN  Connection(Position(block, i + j - n, n),
                   Position(block, j, n),
                   j % i)

\* full_block_reverse with the upper columns offset by 2 * i instead of i.
full_block_reverse_wide(n, i, j) ==
    LET block == 2 * i - 1
        col   == IF j < 3 * i
                 THEN j % i
                 ELSE 2 * i + min(j % i, j + i - n)
    IN  Connection(Position(block, i + j - n, n),
                   Position(block, j, n),
                   col)

\* full_block_reverse placed one block further down (2 * i instead of 2 * i - 1).
full_block_reverse_nextblock(n, i, j) ==
    LET block == 2 * i
        col   == IF j < 3 * i
                 THEN j % i
                 ELSE i + min(j % i, j + i - n)
    IN  Connection(Position(block, i + j - n, n),
                   Position(block, j, n),
                   col)

\* full_block_reverse with the upper columns starting one column too high.
full_block_reverse_gap(n, i, j) ==
    LET block == 2 * i - 1
        col   == IF j < 3 * i
                 THEN j % i
                 ELSE i + 1 + min(j % i, j + i - n)
    IN  Connection(Position(block, i + j - n, n),
                   Position(block, j, n),
                   col)

\* Crossbar::full_block_reverse
full_block_reverse(n, i, j) ==
    LET block == 2 * i - 1
        col   == IF j < 3 * i
                 THEN j % i
                 ELSE i + min(j % i, j + i - n)
    IN  Connection(Position(block, i + j - n, n),
                   Position(block, j, n),
                   col)

\* full_block_forward with the end terminal not reduced modulo n.
full_block_forward_nomod(n, i, j, is_odd, is_wrap) ==
    LET block == 2 * i - 2
    IN  Connection(Position(block + b2i(is_odd), j, n),
                   Position(block + b2i(is_odd \/ is_wrap), i + j, n),
                   j % i)

\* full_block_forward with the two block flags exchanged between start and end.
full_block_forward_swapped(n, i, j, is_odd, is_wrap) ==
    LET block == 2 * i - 2
    IN  Connection(Position(block + b2i(is_odd \/ is_wrap), j, n),
                   Position(block + b2i(is_odd), (i + j) % n, n),
                   j % i)

\* Crossbar::full_block_forward
full_block_forward(n, i, j, is_odd, is_wrap) ==
    LET block == 2 * i - 2
    IN  Connection(Position(block + b2i(is_odd), j, n),
                   Position(block + b2i(is_odd \/ is_wrap), (i + j) % n, n),
                   j % i)

\* full_block with the wrap test written `>` instead of `>=`.
full_block_wrap_gt(n, i, j) ==
    LET is_odd  == ((j \div i) % 2) = 1
        is_wrap == i + j > n
    IN  IF is_odd /\ is_wrap
        THEN full_block_reverse(n, i, j)
        ELSE full_block_forward(n, i, j, is_odd, is_wrap)

\* Crossbar::full_block
full_block(n, i, j) ==
    LET is_odd  == ((j \div i) % 2) = 1
        is_wrap == i + j >= n
    IN  IF is_odd /\ is_wrap
        THEN full_block_reverse(n, i, j)
        ELSE full_block_forward(n, i, j, is_odd, is_wrap)

\* Crossbar::half_block
half_block(n, i, j) ==
    LET block == 2 * i - 2
    IN  Connection(Position(block, j, n),
                   Position(block, i + j, n),
                   j)

\* step with the limit test written `>` instead of `>=`.
step_gt(self, inner_lim) ==
    IF self.inner_idx + 1 > inner_lim
    THEN [self EXCEPT !.inner_idx = 0, !.outer_idx = self.outer_idx + 1]
    ELSE [self EXCEPT !.inner_idx = self.inner_idx + 1]

\* step that moves to the next level without resetting inner_idx.
step_noreset(self, inner_lim) ==
    IF self.inner_idx + 1 >= inner_lim
    THEN [self EXCEPT !.inner_idx = self.inner_idx + 1,
                      !.outer_idx = self.outer_idx + 1]
    ELSE [self EXCEPT !.inner_idx = self.inner_idx + 1]

\* Crossbar::step: the struct after self.step(inner_lim)
step(self, inner_lim) ==
    IF self.inner_idx + 1 >= inner_lim
    THEN [self EXCEPT !.inner_idx = 0, !.outer_idx = self.outer_idx + 1]
    ELSE [self EXCEPT !.inner_idx = self.inner_idx + 1]

----------------------------------------------------------------------------
\* Option<Connection>
None == [some |-> FALSE]
Some(conn) == [some |-> TRUE, conn |-> conn]

\* One finished call of next(): the cursors read at entry and the value returned.
Call(self, r) == [i |-> self.outer_idx, j |-> self.inner_idx, ret |-> r]

\* The number of None results iterator e has returned so far.
Nones(e) == Cardinality({k \in 1..Len(calls[e]) : ~calls[e][k].ret.some})

\* Return with the cursors kept in one place shared by all iterators: the
\* struct left behind is stored into every constructed iterator.
Return_shared(e, self2, r) ==
    /\ xbar'  = [f \in Enums |-> IF pc[f] = "iter" THEN self2 ELSE xbar[f]]
    /\ calls' = [calls EXCEPT ![e] = Append(@, Call(xbar[e], r))]
    /\ UNCHANGED <<arg, pc, topo>>

\* next(&mut self) on iterator e leaves the struct self2 behind and returns r.
Return(e, self2, r) ==
    /\ xbar'  = [xbar  EXCEPT ![e] = self2]
    /\ calls' = [calls EXCEPT ![e] = Append(@, Call(xbar[e], r))]
    /\ UNCHANGED <<arg, pc, topo>>

\* let it = Crossbar::new(arg) for iterator e
New(e) ==
    /\ pc[e] = "new"
    /\ pc'   = [pc   EXCEPT ![e] = "iter"]
    /\ xbar' = [xbar EXCEPT ![e] = new(arg)]
    /\ UNCHANGED <<arg, calls, topo>>

\* NextNone that rewinds the cursors when it reports exhaustion.
NextNone_rewind(e) ==
    LET self == xbar[e]
        rem  == 2 * self.outer_idx
    IN  /\ pc[e] = "iter"
        /\ rem > self.count
        /\ Nones(e) < MaxNone
        /\ Return(e, new(self.count), None)

\* Iterator::next, branch rem > self.count
NextNone(e) ==
    LET self == xbar[e]
        rem  == 2 * self.outer_idx
    IN  /\ pc[e] = "iter"
        /\ rem > self.count
        /\ Nones(e) < MaxNone
        /\ Return(e, self, None)

\* NextHalf that steps with the full-block limit self.count.
NextHalf_fulllimit(e) ==
    LET self == xbar[e]
        rem  == 2 * self.outer_idx
        o    == self.outer_idx
        conn == half_block(self.count, o, self.inner_idx)
    IN  /\ pc[e] = "iter"
        /\ ~(rem > self.count)
        /\ rem = self.count
        /\ Return(e, step(self, self.count), Some(conn))

\* Iterator::next, branch rem == self.count
NextHalf(e) ==
    LET self == xbar[e]
        rem  == 2 * self.outer_idx
        o    == self.outer_idx
        conn == half_block(self.count, o, self.inner_idx)
    IN  /\ pc[e] = "iter"
        /\ ~(rem > self.count)
        /\ rem = self.count
        /\ Return(e, step(self, o), Some(conn))

\* NextFull that steps the cursors before it computes the connection.
NextFull_stepfirst(e) ==
    LET self == xbar[e]
        rem  == 2 * self.outer_idx
        c    == self.count
        next == step(self, c)
        conn == full_block(c, next.outer_idx, next.inner_idx)
    IN  /\ pc[e] = "iter"
        /\ ~(rem > self.count)
        /\ ~(rem = self.count)
        /\ Return(e, next, Some(conn))

\* Iterator::next, branch rem < self.count
NextFull(e) ==
    LET self == xbar[e]
        rem  == 2 * self.outer_idx
        c    == self.count
        conn == full_block(c, self.outer_idx, self.inner_idx)
    IN  /\ pc[e] = "iter"
        /\ ~(rem > self.count)
        /\ ~(rem = self.count)
        /\ Return(e, step(self, c), Some(conn))

\* No topology has been computed yet.
NoTopo == [known |-> FALSE]

\* The outcomes of blocks(0) and rows(0), where count - 1 leaves usize: the
\* build either panics on the subtraction or wraps around, which gives
\* blocks = usize::MAX and rows = 0 * usize::MAX = 0.
Underflowed ==
    {[known |-> TRUE, panicked |-> TRUE],
     [known |-> TRUE, panicked |-> FALSE,
      blocks |-> "usize::MAX", rows |-> 0, columns |-> columns(0)]}

\* Crossbar::blocks(arg), Crossbar::rows(arg) and Crossbar::columns(arg):
\* associated functions without self, computed from the terminal count alone.
Topology ==
    /\ IF arg >= 1
       THEN topo' = [known |-> TRUE, panicked |-> FALSE,
                     blocks  |-> blocks(arg),
                     rows    |-> rows(arg),
                     columns |-> columns(arg)]
       ELSE topo' \in Underflowed
    /\ UNCHANGED <<arg, pc, xbar, calls>>

\* The struct slot of an iterator that is not constructed yet.
NoXbar == [count |-> 0, inner_idx |-> 0, outer_idx |-> 0]

\* A terminal count is chosen; no iterator is constructed yet.
Init ==
    /\ arg \in 0..MaxN
    /\ pc = [e \in Enums |-> "new"]
    /\ xbar = [e \in Enums |-> NoXbar]
    /\ calls = [e \in Enums |-> << >>]
    /\ topo = NoTopo

Next ==
    \/ \E e \in Enums : New(e) \/ NextNone(e) \/ NextHalf(e) \/ NextFull(e)
    \/ Topology

Spec == Init /\ [][Next]_vars

----------------------------------------------------------------------------
\* The connections iterator e has produced so far, in order.
Produced(e) ==
    LET s == SelectSeq(calls[e], LAMBDA c : c.ret.some)
    IN  [k \in 1..Len(s) |-> s[k].ret.conn]

\* Iterator e has returned None at least once.
Exhausted(e) == \E k \in 1..Len(calls[e]) : ~calls[e][k].ret.some

----------------------------------------------------------------------------
\* The unordered terminal pair a connection joins.
Pair(c) == {c.start.row_idx, c.end.row_idx}

\* C1 (coverage): once an iterator over N >= 2 terminals has returned its
\* first None, every unordered pair {a, b} with 0 <= a < b < N is the terminal
\* pair of exactly one produced connection, and no produced connection joins
\* a terminal to itself.
C1_Coverage ==
    \A e \in Enums :
        LET n == arg
            p == Produced(e)
        IN  (n >= 2 /\ Exhausted(e)) =>
                /\ \A a \in 0..(n - 1) : \A b \in (a + 1)..(n - 1) :
                       Cardinality({k \in 1..Len(p) : Pair(p[k]) = {a, b}}) = 1
                /\ \A k \in 1..Len(p) :
                       /\ p[k].start.row_idx # p[k].end.row_idx
                       /\ Pair(p[k]) \subseteq 0..(n - 1)

\* An iterator over at least 7 terminals has been run to exhaustion.
C1_Witness ==
    \E e \in Enums : arg >= 7 /\ Exhausted(e) /\ Len(Produced(e)) > 0

----------------------------------------------------------------------------
\* C2 as stated (block locality): every produced connection of an iterator
\* over N >= 2 terminals has start.block_idx = end.block_idx.
C2_SameBlock ==
    \A e \in Enums : LET p == Produced(e) IN \A k \in 1..Len(p) :
        arg >= 2 =>
            p[k].start.block_idx = p[k].end.block_idx

\* The call was dispatched to the forward construction with is_wrap set and
\* is_odd clear: 2 * i < n, (j / i) even and i + j >= n.
ForwardWrap(n, c) ==
    /\ 2 * c.i < n
    /\ (c.j \div c.i) % 2 = 0
    /\ c.i + c.j >= n

\* C2 amended: a produced connection has start.block_idx = end.block_idx
\* unless it is a forward wrap-around connection (full-block level, j / i even,
\* i + j >= N); such a connection ends in the block right after its start
\* block, end.block_idx = start.block_idx + 1.
C2_SameBlockUnlessForwardWrap ==
    \A e \in Enums : \A k \in 1..Len(calls[e]) :
        LET c == calls[e][k]
        IN  (arg >= 2 /\ c.ret.some) =>
                IF ForwardWrap(arg, c)
                THEN c.ret.conn.end.block_idx = c.ret.conn.start.block_idx + 1
                ELSE c.ret.conn.end.block_idx = c.ret.conn.start.block_idx

\* Both kinds have been produced by one iterator: a forward wrap-around
\* connection and a reverse connection (odd repetition, wrapping).
C2_Witness ==
    \E e \in Enums :
        /\ \E k \in 1..Len(calls[e]) :
               calls[e][k].ret.some /\ ForwardWrap(arg, calls[e][k])
        /\ \E k \in 1..Len(calls[e]) :
               LET c == calls[e][k]
               IN  /\ c.ret.some
                   /\ 2 * c.i < arg
                   /\ (c.j \div c.i) % 2 = 1
                   /\ c.i + c.j >= arg

\* C3 (count): an iterator over N >= 1 terminals never produces more than
\* N * (N - 1) / 2 = rows(N) / 2 connections, and has produced exactly that
\* many when it returns None.
C3_Count ==
    \A e \in Enums :
        LET n == arg
        IN  n >= 1 =>
                /\ Len(Produced(e)) <= (n * (n - 1)) \div 2
                /\ Exhausted(e) =>
                       /\ Len(Produced(e)) = (n * (n - 1)) \div 2
                       /\ Len(Produced(e)) = rows(n) \div 2

\* An iterator over an even and one over an odd number of terminals (each
\* at least 5) end after the half-block level and after a full-block level.
C3_Witness ==
    \E e \in Enums :
        /\ arg >= 5
        /\ Exhausted(e)
        /\ Len(Produced(e)) >= 10

\* C4 (column bound): every produced connection of an iterator over N >= 2
\* terminals has col_idx < columns(N) = floor(N / 2).
C4_ColumnBound ==
    \A e \in Enums : LET p == Produced(e) IN \A k \in 1..Len(p) :
        arg >= 2 =>
            /\ p[k].col_idx < columns(arg)
            /\ p[k].col_idx < arg \div 2

\* The call took the branch col = i + min(j % i, j + i - n) of the reverse
\* construction.
ReverseUpper(n, c) ==
    /\ 2 * c.i < n
    /\ (c.j \div c.i) % 2 = 1
    /\ c.i + c.j >= n
    /\ ~(c.j < 3 * c.i)

\* One iterator has produced a half-block connection, a forward connection
\* and a reverse connection from the upper-column branch in which the
\* minimum is j + i - n.
C4_Witness ==
    \E e \in Enums :
        LET n == arg
        IN  /\ \E k \in 1..Len(calls[e]) :
                   LET c == calls[e][k]
                   IN  c.ret.some /\ ReverseUpper(n, c) /\ c.j + c.i - n < c.j % c.i
            /\ \E k \in 1..Len(calls[e]) :
                   calls[e][k].ret.some /\ ForwardWrap(n, calls[e][k])

----------------------------------------------------------------------------
\* The cells of its column a connection claims: abs_idx rows start..end-1
\* (the range the occupancy check of tests::test_iter marks).
Cells(c) == c.start.abs_idx .. (c.end.abs_idx - 1)

\* C5 (no mid-span collision): two distinct produced connections of one
\* iterator with the same col_idx claim no common cell: their half-open
\* ranges [start.abs_idx, end.abs_idx) are disjoint.
C5_NoCollision ==
    \A e \in Enums :
        LET p == Produced(e)
        IN  \A k1 \in 1..Len(p) : \A k2 \in (k1 + 1)..Len(p) :
                p[k1].col_idx = p[k2].col_idx =>
                    Cells(p[k1]) \cap Cells(p[k2]) = {}

\* Two connections that claim cells share a column, the earlier one produced
\* by the reverse construction in its upper-column branch.
C5_Witness ==
    \E e \in Enums :
        \E k1 \in 1..Len(calls[e]) : \E k2 \in (k1 + 1)..Len(calls[e]) :
            LET c1 == calls[e][k1]
                c2 == calls[e][k2]
            IN  /\ c1.ret.some /\ c2.ret.some
                /\ c1.ret.conn.col_idx = c2.ret.conn.col_idx
                /\ Cells(c1.ret.conn) # {} /\ Cells(c2.ret.conn) # {}
                /\ ReverseUpper(arg, c1)

\* C6 (three-block locality): every produced connection of an iterator over
\* N >= 2 terminals has end.block_idx - start.block_idx equal to 0 or 1.
C6_AdjacentBlocks ==
    \A e \in Enums : LET p == Produced(e) IN \A k \in 1..Len(p) :
        arg >= 2 =>
            p[k].end.block_idx - p[k].start.block_idx \in {0, 1}

\* One iterator has produced a connection inside one block and a connection
\* that ends in the block after its start block.
C6_Witness ==
    \E e \in Enums :
        /\ LET p == Produced(e) IN \E k \in 1..Len(p) :
               p[k].end.block_idx = p[k].start.block_idx
        /\ LET p == Produced(e) IN \E k \in 1..Len(p) :
               p[k].end.block_idx = p[k].start.block_idx + 1

\* C7 as stated (precondition rejection): construction with N = 0 is
\* rejected, so no iterator is ever constructed from terminal count 0.
C7_ZeroRejected ==
    arg = 0 => \A e \in Enums : pc[e] = "new"

\* C7 amended: Crossbar::new(0) is accepted and returns an iterator with
\* count = 0, outer_idx = 1, inner_idx = 0; every next() call on it returns
\* None and leaves it unchanged, so it yields the empty sequence.
C7_ZeroYieldsEmpty ==
    \A e \in Enums :
        (arg = 0 /\ pc[e] = "iter") =>
            /\ xbar[e] = [count |-> 0, inner_idx |-> 0, outer_idx |-> 1]
            /\ \A k \in 1..Len(calls[e]) : calls[e][k].ret = None

\* next() has been called on an iterator constructed from terminal count 0.
C7_Witness ==
    \E e \in Enums : arg = 0 /\ pc[e] = "iter" /\ Len(calls[e]) >= 1

----------------------------------------------------------------------------
\* The call of next() on iterator e that this step finishes, if any.
Called(e) == Len(calls'[e]) = Len(calls[e]) + 1
Finished(e) == calls'[e][Len(calls'[e])]

\* C8 (exhaustion is permanent): a next() call returns None exactly when
\* 2 * outer_idx > count at its start; a call that returns None leaves count,
\* outer_idx and inner_idx unchanged; and a call on an iterator that has
\* returned None before returns None again.
C8_ExhaustionPermanent ==
    [][\A e \in Enums :
          Called(e) =>
              /\ ~Finished(e).ret.some <=> 2 * xbar[e].outer_idx > xbar[e].count
              /\ ~Finished(e).ret.some => xbar'[e] = xbar[e]
              /\ Exhausted(e) => ~Finished(e).ret.some]_vars

\* An iterator that produced connections has returned None twice in a row.
C8_Witness ==
    \E e \in Enums :
        /\ Len(Produced(e)) >= 3
        /\ Len(calls[e]) = Len(Produced(e)) + 2
        /\ ~calls[e][Len(calls[e])].ret.some
        /\ ~calls[e][Len(calls[e]) - 1].ret.some

\* The result of a next() call as the caller sees it: None, or the start,
\* end and col_idx of the connection.
Seen(r) == IF r.some THEN <<"Some", r.conn.start, r.conn.end, r.conn.col_idx>>
                     ELSE <<"None">>

\* C9 (determinism under interleaving): in every interleaving of next()
\* calls on two iterators constructed from the same N, the k-th result of
\* one equals the k-th result of the other wherever both exist, and a call
\* on one iterator leaves the struct and the results of the other unchanged.
C9_Deterministic ==
    /\ [](\A e1 \in Enums : \A e2 \in Enums :
            \A k \in 1..min(Len(calls[e1]), Len(calls[e2])) :
                Seen(calls[e1][k].ret) = Seen(calls[e2][k].ret))
    /\ [][\A e \in Enums : Called(e) =>
              \A f \in Enums \ {e} : xbar'[f] = xbar[f] /\ calls'[f] = calls[f]]_vars

\* The two iterators stand at different points of the same sequence: one is
\* exhausted, the other has produced some connections of a later level.
C9_Witness ==
    \E e1 \in Enums : \E e2 \in Enums :
        /\ Exhausted(e1)
        /\ ~Exhausted(e2)
        /\ Len(Produced(e1)) >= 10
        /\ Len(calls[e2]) >= 1
        /\ calls[e2][Len(calls[e2])].i >= 2

\* C10 (topology agreement): every Position produced by an iterator over
\* N >= 2 terminals has block_idx <= blocks(N) - 1 = N - 2, row_idx <= N - 1
\* and abs_idx < rows(N) = N * (N - 1), none of them negative.
C10_TopologyAgreement ==
    \A e \in Enums : LET p == Produced(e) IN \A k \in 1..Len(p) :
        arg >= 2 =>
            \A pos \in {p[k].start, p[k].end} :
                /\ 0 <= pos.block_idx
                /\ pos.block_idx <= blocks(arg) - 1
                /\ blocks(arg) - 1 = arg - 2
                /\ 0 <= pos.row_idx
                /\ pos.row_idx <= arg - 1
                /\ 0 <= pos.abs_idx
                /\ pos.abs_idx < rows(arg)
                /\ rows(arg) = arg * (arg - 1)

\* A produced connection ends in the last row of the last block, and a
\* reverse connection has been produced.
C10_Witness ==
    \E e \in Enums :
        /\ arg >= 5
        /\ LET p == Produced(e) IN \E k \in 1..Len(p) :
               /\ p[k].end.block_idx = blocks(arg) - 1
               /\ p[k].end.row_idx = arg - 1
               /\ p[k].end.abs_idx = rows(arg) - 1
        /\ \E k \in 1..Len(calls[e]) :
               LET c == calls[e][k]
               IN  c.ret.some /\ 2 * c.i < arg /\ (c.j \div c.i) % 2 = 1
                              /\ c.i + c.j >= arg

----------------------------------------------------------------------------
\* C11 (abs-index consistency): the start and the end Position of every
\* produced connection have abs_idx = row_idx + block_idx * N.
C11_AbsIdx ==
    \A e \in Enums : LET p == Produced(e) IN \A k \in 1..Len(p) :
        \A pos \in {p[k].start, p[k].end} :
            pos.abs_idx = pos.row_idx + pos.block_idx * arg

\* A produced Position lies in a block other than block 0 and in a row other
\* than row 0 and other than its block index, so the block term counts.
C11_Witness ==
    \E e \in Enums : LET p == Produced(e) IN \E k \in 1..Len(p) :
        LET pos == p[k].end
        IN  pos.block_idx >= 2 /\ pos.row_idx >= 1 /\ pos.row_idx # pos.block_idx

\* The calls of iterator e that returned a connection, oldest first.
Emitted(e) == SelectSeq(calls[e], LAMBDA c : c.ret.some)

\* Some connection among the first m produced by e lies in column col and
\* claims a cell that conn claims too.
Blocked(e, m, col, conn) ==
    LET p == Produced(e)
    IN  \E k \in 1..m :
            /\ p[k].col_idx = col
            /\ Cells(p[k]) \cap Cells(conn) # {}

\* C12 (packing order): when a connection is emitted in column c, every
\* column c' < c already holds an earlier connection of the sequence that
\* claims one of the cells start.abs_idx..end.abs_idx-1 of the new one.
\* Stated of the connection each iterator produced last; every produced
\* connection is the last one in the state its call leaves.
C12_PackingOrder ==
    \A e \in Enums :
        LET p == Produced(e)
        IN  Len(p) >= 1 =>
                \A col \in 0..(p[Len(p)].col_idx - 1) :
                    Blocked(e, Len(p) - 1, col, p[Len(p)])

\* The connection produced last is a reverse connection from the upper-column
\* branch, in column 3 or above.
C12_Witness ==
    \E e \in Enums :
        /\ Len(Emitted(e)) >= 1
        /\ Len(Emitted(e)) = Len(calls[e])
        /\ ReverseUpper(arg, calls[e][Len(calls[e])])
        /\ calls[e][Len(calls[e])].ret.conn.col_idx >= 3

----------------------------------------------------------------------------
\* C13 (topology formulas): for N >= 1 the computed topology is
\* blocks = N - 1, rows = N * (N - 1) = N * blocks, columns = floor(N / 2)
\* (9, 90, 5 for N = 10), and computing it changes no iterator: the structs,
\* their construction state and their results stay as they are.
C13_Topology ==
    /\ [](topo.known /\ arg >= 1 =>
            /\ ~topo.panicked
            /\ topo.blocks = arg - 1
            /\ topo.rows = arg * (arg - 1)
            /\ topo.rows = arg * topo.blocks
            /\ topo.columns = arg \div 2
            /\ 2 * topo.columns <= arg /\ arg < 2 * topo.columns + 2
            /\ arg = 10 => <<topo.blocks, topo.rows, topo.columns>> = <<9, 90, 5>>)
    /\ [][topo' # topo => xbar' = xbar /\ pc' = pc /\ calls' = calls]_vars

\* The topology of 10 terminals has been computed while an iterator was in
\* the middle of its sequence.
C13_Witness ==
    /\ topo.known
    /\ arg = 10
    /\ \E e \in Enums : Len(Produced(e)) >= 1 /\ ~Exhausted(e)

----------------------------------------------------------------------------
\* C14 (emitted pair per cursor): a next() call that starts with cursors
\* (outer_idx, inner_idx) = (i, j) and returns a connection returns one that
\* joins exactly the terminals j and (i + j) mod N, whichever construction
\* (half-block, forward, reverse) produced it.
C14_PairPerCursor ==
    \A e \in Enums : \A k \in 1..Len(calls[e]) :
        LET c == calls[e][k]
        IN  c.ret.some => Pair(c.ret.conn) = {c.j, (c.i + c.j) % arg}

\* One iterator has produced a half-block connection, a forward wrap-around
\* connection and a reverse connection.
C14_Witness ==
    \E e \in Enums :
        /\ \E k \in 1..Len(calls[e]) :
               calls[e][k].ret.some /\ 2 * calls[e][k].i = arg
        /\ \E k \in 1..Len(calls[e]) :
               calls[e][k].ret.some /\ ForwardWrap(arg, calls[e][k])
        /\ \E k \in 1..Len(calls[e]) :
               LET c == calls[e][k]
               IN  c.ret.some /\ 2 * c.i < arg /\ (c.j \div c.i) % 2 = 1
                              /\ c.i + c.j >= arg

----------------------------------------------------------------------------
\* C15 (cursor invariant): every iterator constructed from N >= 1 keeps
\* count = N, 1 <= outer_idx <= floor(N / 2) + 1 and 0 <= inner_idx < N;
\* inner_idx < outer_idx while 2 * outer_idx = N, and inner_idx = 0 once
\* 2 * outer_idx > N.
C15_CursorInvariant ==
    \A e \in Enums :
        (arg >= 1 /\ pc[e] = "iter") =>
            LET self == xbar[e]
            IN  /\ self.count = arg
                /\ self.outer_idx >= 1
                /\ self.outer_idx <= (arg \div 2) + 1
                /\ self.inner_idx >= 0
                /\ self.inner_idx < arg
                /\ 2 * self.outer_idx = arg => self.inner_idx < self.outer_idx
                /\ 2 * self.outer_idx > arg => self.inner_idx = 0

\* One iterator stands inside the half-block level with inner_idx > 0 and
\* the other has moved past the last level, at outer_idx = floor(N / 2) + 1.
C15_Witness ==
    \E e1 \in Enums : \E e2 \in Enums :
        /\ arg >= 6
        /\ pc[e1] = "iter" /\ pc[e2] = "iter"
        /\ 2 * xbar[e1].outer_idx = arg /\ xbar[e1].inner_idx >= 1
        /\ xbar[e2].outer_idx = (arg \div 2) + 1
        /\ Len(Produced(e2)) >= 1

----------------------------------------------------------------------------
\* usize arithmetic: a - b is defined when it does not go below 0, a / d and
\* a % d when d is not 0.
sub_ok(a, b) == a >= b
div_ok(d) == d # 0

\* The subtractions and remainders full_block_reverse evaluates:
\* 2 * i - 1, j % i, j + i - n (upper-column branch only) and i + j - n.
full_block_reverse_ok(n, i, j) ==
    /\ sub_ok(2 * i, 1)
    /\ div_ok(i)
    /\ ~(j < 3 * i) => sub_ok(j + i, n)
    /\ sub_ok(i + j, n)

\* Those of full_block_forward: 2 * i - 2, (i + j) % n and j % i.
full_block_forward_ok(n, i, j) ==
    /\ sub_ok(2 * i, 2)
    /\ div_ok(n)
    /\ div_ok(i)

\* Those of full_block: j / i, then the construction it dispatches to.
full_block_ok(n, i, j) ==
    /\ div_ok(i)
    /\ IF ((j \div i) % 2) = 1 /\ i + j >= n
       THEN full_block_reverse_ok(n, i, j)
       ELSE full_block_forward_ok(n, i, j)

\* That of half_block: 2 * i - 2.
half_block_ok(n, i, j) == sub_ok(2 * i, 2)

\* The next() call that starts from struct self evaluates only defined
\* subtractions, divisions and remainders.
next_ok(self) ==
    LET rem == 2 * self.outer_idx
    IN  IF rem > self.count THEN TRUE
        ELSE IF rem = self.count
             THEN half_block_ok(self.count, self.outer_idx, self.inner_idx)
             ELSE full_block_ok(self.count, self.outer_idx, self.inner_idx)

\* C16 (no arithmetic failure): from every cursor state an iterator over
\* N >= 1 terminals reaches, computing the next connection subtracts nothing
\* below zero (2 * i - 2, 2 * i - 1, i + j - n, j + i - n) and divides or takes
\* a remainder by nothing that is zero (j / i, j % i, (i + j) % n); and no
\* index of a produced connection is below zero.
C16_NoArithmeticFailure ==
    \A e \in Enums :
        (arg >= 1 /\ pc[e] = "iter") =>
            /\ next_ok(xbar[e])
            /\ \A k \in 1..Len(calls[e]) :
                   LET c == calls[e][k]
                   IN  /\ next_ok([count |-> arg, outer_idx |-> c.i, inner_idx |-> c.j])
                       /\ c.ret.some =>
                              /\ c.ret.conn.col_idx >= 0
                              /\ \A pos \in {c.ret.conn.start, c.ret.conn.end} :
                                     /\ pos.block_idx >= 0
                                     /\ pos.row_idx >= 0
                                     /\ pos.abs_idx >= 0

\* An iterator stands before a reverse connection of the upper-column branch
\* whose start row i + j - n is 0, after it produced one at level 1 where
\* 2 * i - 2 is 0.
C16_Witness ==
    \E e \in Enums :
        LET self == xbar[e]
        IN  /\ arg >= 1 /\ pc[e] = "iter"
            /\ 2 * self.outer_idx < self.count
            /\ (self.inner_idx \div self.outer_idx) % 2 = 1
            /\ self.inner_idx >= 3 * self.outer_idx
            /\ self.inner_idx + self.outer_idx = self.count
            /\ self.outer_idx >= 2
            /\ Len(calls[e]) >= 1 /\ calls[e][1].i = 1 /\ calls[e][1].ret.some

----------------------------------------------------------------------------
\* The number of full-block levels of n terminals: the i >= 1 with 2 * i < n.
FullLevels(n) == IF n >= 1 THEN (n - 1) \div 2 ELSE 0

\* C17 (level structure): the calls that return connections run through the
\* levels in order. Level i with 2 * i < N contributes the N consecutive
\* items with inner_idx = 0..N-1, so the k-th item of the sequence starts from
\* outer_idx = (k - 1) div N + 1, inner_idx = (k - 1) mod N while it lies in
\* a full-block level; the items after the full-block levels exist only for
\* even N, start from outer_idx = N / 2 and inner_idx = 0..N/2-1 in order,
\* and end the sequence. outer_idx never decreases from one item to the next.
C17_LevelStructure ==
    \A e \in Enums :
        LET s == Emitted(e)
            f == FullLevels(arg) * arg
        IN  /\ \A k \in 1..Len(s) :
                   IF k <= f
                   THEN /\ s[k].i = ((k - 1) \div arg) + 1
                        /\ s[k].j = (k - 1) % arg
                        /\ 2 * s[k].i < arg
                   ELSE /\ arg % 2 = 0
                        /\ 2 * s[k].i = arg
                        /\ s[k].j = k - 1 - f
                        /\ s[k].j < arg \div 2
            /\ \A k \in 1..(Len(s) - 1) : s[k].i <= s[k + 1].i
            /\ Exhausted(e) =>
                   Len(s) = f + (IF arg % 2 = 0 THEN arg \div 2 ELSE 0)

\* An iterator over an even number of terminals has passed at least three
\* full-block levels and the half-block level and is exhausted.
C17_Witness ==
    \E e \in Enums :
        /\ arg % 2 = 0
        /\ FullLevels(arg) >= 3
        /\ Exhausted(e)
        /\ Len(Emitted(e)) = FullLevels(arg) * arg + arg \div 2

----------------------------------------------------------------------------
\* The closed abs_idx spans start.abs_idx..end.abs_idx of two connections,
\* both end rows included, have no row in common: one of them is empty or
\* one ends before the other starts.
SpansDisjoint(c1, c2) ==
    \/ c1.start.abs_idx > c1.end.abs_idx
    \/ c2.start.abs_idx > c2.end.abs_idx
    \/ c1.end.abs_idx < c2.start.abs_idx
    \/ c2.end.abs_idx < c1.start.abs_idx

\* C18 (level-to-block mapping): a connection emitted at level i has its
\* start and its end in block 2i-2 or 2i-1: both in 2i-2 at the half-block
\* level, both in 2i-1 when the reverse construction produced it; so two
\* connections of different levels share no abs_idx row.
C18_LevelBlocks ==
    \A e \in Enums :
        LET s == Emitted(e)
        IN  /\ \A k \in 1..Len(s) :
                   LET c    == s[k]
                       blks == {c.ret.conn.start.block_idx, c.ret.conn.end.block_idx}
                   IN  /\ blks \subseteq {2 * c.i - 2, 2 * c.i - 1}
                       /\ 2 * c.i = arg => blks = {2 * c.i - 2}
                       /\ (2 * c.i < arg /\ (c.j \div c.i) % 2 = 1 /\ c.i + c.j >= arg)
                              => blks = {2 * c.i - 1}
            /\ \A k1 \in 1..Len(s) : \A k2 \in (k1 + 1)..Len(s) :
                   s[k1].i # s[k2].i =>
                       SpansDisjoint(s[k1].ret.conn, s[k2].ret.conn)

\* One iterator has produced connections of two full-block levels, among
\* them a reverse one, and a connection of the half-block level.
C18_Witness ==
    \E e \in Enums :
        LET s == Emitted(e)
        IN  /\ \E k \in 1..Len(s) : s[k].i = 1
            /\ \E k \in 1..Len(s) :
                   /\ s[k].i = 2 /\ 2 * s[k].i < arg
                   /\ (s[k].j \div s[k].i) % 2 = 1 /\ s[k].i + s[k].j >= arg
            /\ \E k \in 1..Len(s) : 2 * s[k].i = arg

----------------------------------------------------------------------------
\* C19 (endpoint-inclusive non-collision): two distinct produced connections
\* of one iterator with the same col_idx have disjoint closed spans
\* [start.abs_idx, end.abs_idx]: the end row of one is neither the start row
\* nor an interior row of the other.
C19_ClosedSpansDisjoint ==
    \A e \in Enums :
        LET p == Produced(e)
        IN  \A k1 \in 1..Len(p) : \A k2 \in (k1 + 1)..Len(p) :
                p[k1].col_idx = p[k2].col_idx =>
                    /\ SpansDisjoint(p[k1], p[k2])
                    /\ p[k1].end.abs_idx # p[k2].start.abs_idx
                    /\ p[k2].end.abs_idx # p[k1].start.abs_idx

\* Two connections of the same level share a column, and the later one
\* starts in the row right after the end row of the earlier one.
C19_Witness ==
    \E e \in Enums :
        LET s == Emitted(e)
        IN  \E k1 \in 1..Len(s) : \E k2 \in (k1 + 1)..Len(s) :
                /\ s[k1].i = s[k2].i
                /\ s[k1].ret.conn.col_idx = s[k2].ret.conn.col_idx
                /\ s[k2].ret.conn.start.abs_idx = s[k1].ret.conn.end.abs_idx + 1

\* C20 (span orientation): every produced connection of an iterator over
\* N >= 2 terminals has start.abs_idx < end.abs_idx, so it claims at least
\* one cell; this holds for a forward wrap-around connection too, whose
\* end.row_idx is below its start.row_idx.
C20_SpanOrientation ==
    \A e \in Enums : LET p == Produced(e) IN \A k \in 1..Len(p) :
        arg >= 2 =>
            /\ p[k].start.abs_idx < p[k].end.abs_idx
            /\ Cells(p[k]) # {}

\* A forward wrap-around connection with end.row_idx < start.row_idx has
\* been produced.
C20_Witness ==
    \E e \in Enums : \E k \in 1..Len(calls[e]) :
        LET c == calls[e][k]
        IN  /\ c.ret.some
            /\ ForwardWrap(arg, c)
            /\ c.ret.conn.end.row_idx < c.ret.conn.start.row_idx

====
